---- MODULE Spec2Model ----
(***************************************************************************)
(* A model of the interactive widgets of the foretodata site: the tag      *)
(* filter view (FilterToggle.jsx), the sound manager (soundManager.js)     *)
(* with its SoundToggle controls, the theme switch (ViewToggle.jsx) and    *)
(* the timer-driven visualisation widgets.                                 *)
(***************************************************************************)
EXTENDS Integers, Sequences, FiniteSets, TLC

VARIABLES
    records,            \* the accomplishments array the filter view renders
    viewMode,           \* FilterToggle state: "method" or "industry"
    expandedId,         \* FilterToggle state: {} for null, {id} otherwise
    selectedCategory,   \* FilterToggle state: Null or a category key
    grouped,            \* FilterToggle useMemo value (recomputed on viewMode)
    lastOp,             \* the last operation performed, <<name, argument>>
    storage,            \* localStorage: key |-> string, or Null when absent
    written,            \* every <<key, value>> the pages have passed to setItem
    audioSupported,     \* whether constructing an AudioContext succeeds
    soundManager,       \* the SoundManager singleton (its four fields)
    now,                \* Date.now(), in units of TimeUnit ms
    sounded,            \* whether the last operation started an oscillator
    lastRet,            \* return value of the last toggle() call, as a string
    raised,             \* whether the last operation left by an exception
    stMounted,          \* SoundToggle instance |-> its mount effect has run
    stEnabled,          \* SoundToggle instance |-> its `enabled` state
    view,               \* ViewToggle state: "terminal" or "classic"
    vtMounted,          \* ViewToggle: its mount effect has run
    classList,          \* document.documentElement.classList
    lib3Dmol,           \* window.$3Dmol is defined
    libTHREE,           \* window.THREE is defined
    mv,                 \* the mounted MolecularViewer instance
    mvStale,            \* pending retry timers of unmounted MolecularViewers
    wl,                 \* the mounted WaddingtonLandscape instance
    wlStale,            \* pending timers and frames of unmounted landscapes
    cn,                 \* the mounted CausalNetworkVisualization instance
    cnStale,            \* pending cascade timeouts of unmounted instances
    ah,                 \* the mounted AsciiHeroAnimation instance
    ahStale,            \* pending transition timeouts of unmounted instances
    hp                  \* the mounted AsciiHeroAnimation of the panel layout

filterVars == <<records, viewMode, expandedId, selectedCategory, grouped>>

prefVars == <<storage, written, audioSupported, soundManager, now, sounded,
              lastRet, raised, stMounted, stEnabled, view, vtMounted, classList>>

vars == <<records, viewMode, expandedId, selectedCategory, grouped, lastOp,
          storage, written, audioSupported, soundManager, now, sounded,
          lastRet, raised, stMounted, stEnabled, view, vtMounted, classList,
          lib3Dmol, libTHREE, mv, mvStale, wl, wlStale,
          cn, cnStale, ah, ahStale, hp>>

\* JavaScript null for string-valued state.
Null == "<null>"

\* Array.prototype.includes on a tag list.
Includes(list, x) == \E i \in 1..Len(list) : list[i] = x

----------------------------------------------------------------------------
(* FilterToggle.jsx: static data *)

\* variant: the last record reuses the id of the first
accomplishmentsDupId ==
    << [id |-> 1, methods |-> <<"causal-inference", "interpretable-ml">>,
                  industries |-> <<"revenue", "b2b-sales">>],
       [id |-> 2, methods |-> <<"mlops", "causal-inference">>,
                  industries |-> <<"operations", "supply-chain">>],
       [id |-> 3, methods |-> <<"llms", "mlops">>,
                  industries |-> <<"operations", "customer-experience">>],
       [id |-> 4, methods |-> <<"causal-inference", "interpretable-ml">>,
                  industries |-> <<"revenue", "pricing">>],
       [id |-> 5, methods |-> <<"interpretable-ml", "causal-inference">>,
                  industries |-> <<"expansion", "retail">>],
       [id |-> 1, methods |-> <<"llms", "mlops">>,
                  industries |-> <<"operations", "legal">>] >>

accomplishments ==
    << [id |-> 1, methods |-> <<"causal-inference", "interpretable-ml">>,
                  industries |-> <<"revenue", "b2b-sales">>],
       [id |-> 2, methods |-> <<"mlops", "causal-inference">>,
                  industries |-> <<"operations", "supply-chain">>],
       [id |-> 3, methods |-> <<"llms", "mlops">>,
                  industries |-> <<"operations", "customer-experience">>],
       [id |-> 4, methods |-> <<"causal-inference", "interpretable-ml">>,
                  industries |-> <<"revenue", "pricing">>],
       [id |-> 5, methods |-> <<"interpretable-ml", "causal-inference">>,
                  industries |-> <<"expansion", "retail">>],
       [id |-> 6, methods |-> <<"llms", "mlops">>,
                  industries |-> <<"operations", "legal">>] >>

\* variant: the table has no entry for 'mlops'
methodCategoriesNoMlops ==
    ("llms" :> "LLMs & GenAI") @@
    ("interpretable-ml" :> "Interpretable ML") @@
    ("causal-inference" :> "Causal Inference")

\* key |-> label
methodCategories ==
    ("llms" :> "LLMs & GenAI") @@
    ("interpretable-ml" :> "Interpretable ML") @@
    ("causal-inference" :> "Causal Inference") @@
    ("mlops" :> "MLOps")

industryCategories ==
    ("revenue" :> "Grow Revenue") @@
    ("operations" :> "Streamline Ops") @@
    ("expansion" :> "Expand Business") @@
    ("b2b-sales" :> "B2B Sales") @@
    ("pricing" :> "Pricing") @@
    ("supply-chain" :> "Supply Chain") @@
    ("customer-experience" :> "Customer Experience") @@
    ("retail" :> "Retail") @@
    ("legal" :> "Legal")

ViewModes == {"method", "industry"}

\* README.md: "Available method tags" and "Available industry tags"
AvailableMethodTags == {"llms", "interpretable-ml", "causal-inference", "mlops"}

AvailableIndustryTags ==
    {"revenue", "operations", "expansion", "b2b-sales", "pricing",
     "supply-chain", "customer-experience", "retail", "legal"}

----------------------------------------------------------------------------
(* FilterToggle.jsx: derived values of a render *)

categoriesOf(mode) ==
    IF mode = "method" THEN methodCategories ELSE industryCategories

categories == categoriesOf(viewMode)

\* a[categoryKey]: the record's tag list in the dimension of the view mode
TagList(a, mode) == IF mode = "method" THEN a.methods ELSE a.industries

\* variant: filters on the method list whatever the view mode
FilterByTagMethodsOnly(recs, mode, cat) ==
    LET Keep(a) == Includes(a.methods, cat)
    IN  SelectSeq(recs, Keep)

\* accomplishments.filter(a => a[categoryKey].includes(cat))
FilterByTag(recs, mode, cat) ==
    LET Keep(a) == Includes(TagList(a, mode), cat)
    IN  SelectSeq(recs, Keep)

\* the body of the useMemo: one group per key of the category table
ComputeGrouped(recs, mode) ==
    [cat \in DOMAIN categoriesOf(mode) |-> FilterByTag(recs, mode, cat)]

\* grouped[selectedCategory] is undefined for a key the memo does not hold;
\* rendering then throws on items.length
renderThrows ==
    selectedCategory # Null /\ selectedCategory \notin DOMAIN grouped

displayGroups ==
    IF selectedCategory # Null /\ selectedCategory \in DOMAIN grouped
    THEN [cat \in {selectedCategory} |-> grouped[selectedCategory]]
    ELSE grouped

\* the sections that are rendered: groups with items.length === 0 are skipped
RenderedSections ==
    IF renderThrows THEN {}
    ELSE {cat \in DOMAIN displayGroups : Len(displayGroups[cat]) # 0}

\* ids of the records that have a card on the page
DisplayedIds ==
    {displayGroups[cat][i].id :
        <<cat, i>> \in {p \in RenderedSections \X (1..Len(records)) :
                            p[2] <= Len(displayGroups[p[1]])}}

\* expandedId === item.id on a rendered card: the detail panel is shown
PanelVisible(id) == id \in DisplayedIds /\ expandedId = {id}

\* variant: no fallback to the raw tag
TagLabelNoFallback(table, tag) ==
    IF tag \in DOMAIN table THEN table[tag] ELSE "undefined"

\* methodCategories[m]?.label || m
TagLabel(table, tag) ==
    IF tag \in DOMAIN table /\ table[tag] # "" THEN table[tag] ELSE tag

RecordIds == {records[i].id : i \in 1..Len(records)}

----------------------------------------------------------------------------
(* FilterToggle.jsx: event handlers *)

\* variant: the selection is kept over a change of the view mode
SetViewModeKeepSelection(mode) ==
    /\ ~renderThrows
    /\ viewMode' = mode
    /\ grouped' = IF mode = viewMode THEN grouped
                  ELSE ComputeGrouped(records, mode)
    /\ lastOp' = <<"setViewMode", mode>>
    /\ UNCHANGED <<records, expandedId, selectedCategory>>

\* onClick={() => { setViewMode(mode); setSelectedCategory(null); }}
SetViewMode(mode) ==
    /\ ~renderThrows
    /\ viewMode' = mode
    /\ selectedCategory' = Null
    /\ grouped' = IF mode = viewMode THEN grouped
                  ELSE ComputeGrouped(records, mode)
    /\ lastOp' = <<"setViewMode", mode>>
    /\ UNCHANGED <<records, expandedId>>

\* variant: a click on the selected pill keeps it selected
ClickPillNoDeselect(key) ==
    /\ ~renderThrows
    /\ key \in DOMAIN categories
    /\ selectedCategory' = key
    /\ lastOp' = <<"clickPill", key>>
    /\ UNCHANGED <<records, viewMode, expandedId, grouped>>

\* onClick={() => setSelectedCategory(selectedCategory === key ? null : key)}
ClickPill(key) ==
    /\ ~renderThrows
    /\ key \in DOMAIN categories
    /\ selectedCategory' = IF selectedCategory = key THEN Null ELSE key
    /\ lastOp' = <<"clickPill", key>>
    /\ UNCHANGED <<records, viewMode, expandedId, grouped>>

\* {selectedCategory && ...}: the 'Show all' button is rendered
ShowAllRendered ==
    ~renderThrows /\ selectedCategory # Null /\ selectedCategory # ""

\* className={`pill ${selectedCategory === key ? 'active' : ''}`}
ActivePills == {key \in DOMAIN categories : selectedCategory = key}

\* variant: 'Show all' also collapses the expanded record
ShowAllCollapses ==
    /\ ShowAllRendered
    /\ selectedCategory' = Null
    /\ expandedId' = {}
    /\ lastOp' = <<"showAll", Null>>
    /\ UNCHANGED <<records, viewMode, grouped>>

\* the 'Show all' button: onClick={() => setSelectedCategory(null)}
ShowAll ==
    /\ ShowAllRendered
    /\ selectedCategory' = Null
    /\ lastOp' = <<"showAll", Null>>
    /\ UNCHANGED <<records, viewMode, expandedId, grouped>>

\* variant: a click always expands, never collapses
ClickCardNoCollapse(id) ==
    /\ id \in DisplayedIds
    /\ expandedId' = {id}
    /\ lastOp' = <<"clickCard", id>>
    /\ UNCHANGED <<records, viewMode, selectedCategory, grouped>>

\* onClick={() => setExpandedId(expandedId === item.id ? null : item.id)}
ClickCard(id) ==
    /\ id \in DisplayedIds
    /\ expandedId' = IF expandedId = {id} THEN {} ELSE {id}
    /\ lastOp' = <<"clickCard", id>>
    /\ UNCHANGED <<records, viewMode, selectedCategory, grouped>>

AllKeys == DOMAIN methodCategories \cup DOMAIN industryCategories

FilterStep ==
    \/ \E mode \in ViewModes : SetViewMode(mode)
    \/ \E key \in AllKeys : ClickPill(key)
    \/ ShowAll
    \/ \E id \in RecordIds : ClickCard(id)

\* const [viewMode] = useState('method'); expandedId and selectedCategory null
InitFilter(recs) ==
    /\ records = recs
    /\ viewMode = "method"
    /\ expandedId = {}
    /\ selectedCategory = Null
    /\ grouped = ComputeGrouped(recs, "method")
    /\ lastOp = <<"init", Null>>

----------------------------------------------------------------------------
(* soundManager.js: the SoundManager singleton *)

hoverThrottle == 100

\* granularity of the modelled clock and the last instant that is modelled
TickStep == 50
MaxTime == 300

\* variant: the preference is written as a number
BoolToStringNumeric(b) == IF b THEN "1" ELSE "0"

\* Boolean.prototype.toString
BoolToString(b) == IF b THEN "true" ELSE "false"

\* constructor(): audioContext is FALSE for null, TRUE for an AudioContext
NewSoundManager ==
    [audioContext |-> FALSE, enabled |-> FALSE,
     lastHoverTime |-> 0, initialized |-> FALSE]

\* variant: the initialized flag is set before the context is constructed
SmInitFlagFirst(m, store) ==
    IF m.initialized THEN m
    ELSE IF ~audioSupported THEN [m EXCEPT !.initialized = TRUE]
    ELSE [m EXCEPT !.audioContext = TRUE,
                   !.initialized = TRUE,
                   !.enabled = (store["soundEnabled"] = "true")]

\* init(): the manager after the call. A constructor that throws leaves the
\* try block before any field is assigned; the catch only logs.
SmInit(m, store) ==
    IF m.initialized THEN m
    ELSE IF ~audioSupported THEN m
    ELSE [m EXCEPT !.audioContext = TRUE,
                   !.initialized = TRUE,
                   !.enabled = (store["soundEnabled"] = "true")]

\* whether an exception leaves init(): the constructor call is inside the
\* try block, whose catch logs a warning and returns
InitRaises(m) == FALSE

\* playToggleOn(): whether an oscillator is started
PlayToggleOnSounds(m) == m.audioContext

\* toggle(): the manager and the storage after the call, whether the
\* confirmation sound was played, the value returned, and whether the call
\* was left by an exception of init() (nothing in toggle() catches one)
SmToggle(m, store) ==
    LET flipped == [m EXCEPT !.enabled = ~m.enabled]
        store1 == [store EXCEPT
                      !["soundEnabled"] = BoolToString(flipped.enabled)]
        throws == flipped.enabled /\ InitRaises(flipped)
        m2 == IF flipped.enabled /\ ~throws THEN SmInit(flipped, store1)
              ELSE flipped
    IN  [m |-> m2,
         store |-> store1,
         sound |-> flipped.enabled /\ ~throws /\ PlayToggleOnSounds(m2),
         ret |-> IF throws THEN Null ELSE BoolToString(m2.enabled),
         raised |-> throws]

\* isEnabled()
IsEnabled(m) == m.enabled

\* variant: the guard tests the audio context only
PlayGuardContextOnly(m) == m.audioContext

\* if (!this.enabled || !this.audioContext) return;
PlayGuardPasses(m) == m.enabled /\ m.audioContext

PlayNames == {"playClick", "playToggle", "playSelect", "playExpand",
              "playCollapse"}

\* export const initSound = () => soundManager.init()
CallInit ==
    /\ soundManager' = IF InitRaises(soundManager) THEN soundManager
                       ELSE SmInit(soundManager, storage)
    /\ raised' = InitRaises(soundManager)
    /\ sounded' = FALSE
    /\ lastOp' = <<"init()", Null>>
    /\ UNCHANGED <<storage, written, audioSupported, now, lastRet,
                   stMounted, stEnabled, view, vtMounted, classList>>

\* export const toggleSound = () => soundManager.toggle()
CallToggle ==
    /\ LET r == SmToggle(soundManager, storage) IN
          /\ soundManager' = r.m
          /\ storage' = r.store
          /\ written' = written \cup
                          {<<"soundEnabled", r.store["soundEnabled"]>>}
          /\ sounded' = r.sound
          /\ lastRet' = r.ret
          /\ raised' = r.raised
    /\ lastOp' = <<"toggle()", Null>>
    /\ UNCHANGED <<audioSupported, now, stMounted, stEnabled,
                   view, vtMounted, classList>>

\* playClick(), playToggle(), playSelect(), playExpand(), playCollapse()
Play(name) ==
    /\ sounded' = PlayGuardPasses(soundManager)
    /\ raised' = FALSE
    /\ lastOp' = <<name, Null>>
    /\ UNCHANGED <<storage, written, audioSupported, soundManager, now,
                   lastRet, stMounted, stEnabled, view, vtMounted, classList>>

\* variant: a call inside the throttle window restarts the window
PlayHoverRestartsWindow ==
    /\ LET passes == /\ PlayGuardPasses(soundManager)
                     /\ ~(now - soundManager.lastHoverTime < hoverThrottle)
       IN  /\ sounded' = passes
           /\ soundManager' =
                 IF PlayGuardPasses(soundManager)
                 THEN [soundManager EXCEPT !.lastHoverTime = now]
                 ELSE soundManager
    /\ raised' = FALSE
    /\ lastOp' = <<"playHover", Null>>
    /\ UNCHANGED <<storage, written, audioSupported, now, lastRet,
                   stMounted, stEnabled, view, vtMounted, classList>>

\* playHover(): dropped inside the throttle window
PlayHover ==
    /\ LET passes == /\ PlayGuardPasses(soundManager)
                     /\ ~(now - soundManager.lastHoverTime < hoverThrottle)
       IN  /\ sounded' = passes
           /\ soundManager' =
                 IF passes
                 THEN [soundManager EXCEPT !.lastHoverTime = now]
                 ELSE soundManager
    /\ raised' = FALSE
    /\ lastOp' = <<"playHover", Null>>
    /\ UNCHANGED <<storage, written, audioSupported, now, lastRet,
                   stMounted, stEnabled, view, vtMounted, classList>>

\* time passes
Tick ==
    /\ now + TickStep <= MaxTime
    /\ now' = now + TickStep
    /\ lastOp' = <<"tick", Null>>
    /\ UNCHANGED <<storage, written, audioSupported, soundManager, lastRet,
                   sounded, raised, stMounted, stEnabled, view, vtMounted,
                   classList>>

----------------------------------------------------------------------------
(* SoundToggle: the compact footer control and the full sidebar control *)

Toggles == {"compact", "full"}

\* useEffect(() => { initSound(); setEnabled(isEnabled()); }, [])
StMount(t) ==
    /\ ~stMounted[t]
    /\ soundManager' = IF InitRaises(soundManager) THEN soundManager
                       ELSE SmInit(soundManager, storage)
    /\ raised' = InitRaises(soundManager)
    /\ stEnabled' = IF raised' THEN stEnabled
                    ELSE [stEnabled EXCEPT ![t] = IsEnabled(soundManager')]
    /\ stMounted' = [stMounted EXCEPT ![t] = TRUE]
    /\ sounded' = FALSE
    /\ lastOp' = <<"stMount", t>>
    /\ UNCHANGED <<storage, written, audioSupported, now, lastRet,
                   view, vtMounted, classList>>

\* handleToggle: const newState = toggleSound(); setEnabled(newState)
StClick(t) ==
    /\ stMounted[t]
    /\ LET r == SmToggle(soundManager, storage) IN
          /\ soundManager' = r.m
          /\ storage' = r.store
          /\ written' = written \cup
                          {<<"soundEnabled", r.store["soundEnabled"]>>}
          /\ sounded' = r.sound
          /\ lastRet' = r.ret
          /\ raised' = r.raised
          /\ stEnabled' = IF r.raised THEN stEnabled
                          ELSE [stEnabled EXCEPT ![t] = r.m.enabled]
    /\ lastOp' = <<"stClick", t>>
    /\ UNCHANGED <<audioSupported, now, stMounted, view, vtMounted,
                   classList>>

----------------------------------------------------------------------------
(* ViewToggle.jsx *)

Views == {"terminal", "classic"}

\* variant: the class is added and the other one is not removed
SwapClassAddOnly(list, a, b) == list \cup {b}

\* classList.remove(a); classList.add(b)
SwapClass(list, a, b) == (list \ {a}) \cup {b}

\* variant: the mount effect does not read the saved view
VtMountNoLoad ==
    /\ ~vtMounted
    /\ vtMounted' = TRUE
    /\ sounded' = FALSE
    /\ raised' = FALSE
    /\ lastOp' = <<"vtMount", Null>>
    /\ UNCHANGED <<storage, written, audioSupported, soundManager, now,
                   lastRet, stMounted, stEnabled, view, classList>>

\* className active / aria-pressed: the buttons that are marked
ActiveButtons == {v \in Views : view = v}

\* useEffect on mount: load the saved preference
VtMount ==
    /\ ~vtMounted
    /\ vtMounted' = TRUE
    /\ IF storage["siteView"] = "classic"
       THEN /\ view' = "classic"
            /\ classList' = SwapClass(classList, "dark", "classic")
       ELSE UNCHANGED <<view, classList>>
    /\ sounded' = FALSE
    /\ raised' = FALSE
    /\ lastOp' = <<"vtMount", Null>>
    /\ UNCHANGED <<storage, written, audioSupported, soundManager, now,
                   lastRet, stMounted, stEnabled>>

\* handleViewChange(newView), from the Terminal and the Classic button
HandleViewChange(newView) ==
    /\ vtMounted
    /\ view' = newView
    /\ storage' = [storage EXCEPT !["siteView"] = newView]
    /\ written' = written \cup {<<"siteView", newView>>}
    /\ classList' = IF newView = "classic"
                    THEN SwapClass(classList, "dark", "classic")
                    ELSE SwapClass(classList, "classic", "dark")
    /\ sounded' = FALSE
    /\ raised' = FALSE
    /\ lastOp' = <<"handleViewChange", newView>>
    /\ UNCHANGED <<audioSupported, soundManager, now, lastRet,
                   stMounted, stEnabled, vtMounted>>

----------------------------------------------------------------------------
(* The page: local storage outlives a reload, script state does not *)

InitialClassList == {"dark"}

Reload ==
    /\ soundManager' = NewSoundManager
    /\ stMounted' = [t \in Toggles |-> FALSE]
    /\ stEnabled' = [t \in Toggles |-> FALSE]
    /\ view' = "terminal"
    /\ vtMounted' = FALSE
    /\ classList' = InitialClassList
    /\ sounded' = FALSE
    /\ raised' = FALSE
    /\ lastOp' = <<"reload", Null>>
    /\ UNCHANGED <<storage, written, audioSupported, now, lastRet>>

PrefStep ==
    \/ CallInit
    \/ CallToggle
    \/ \E name \in PlayNames : Play(name)
    \/ PlayHover
    \/ Tick
    \/ \E t \in Toggles : StMount(t)
    \/ \E t \in Toggles : StClick(t)
    \/ VtMount
    \/ \E v \in Views : HandleViewChange(v)
    \/ Reload

\* the storage the page finds, and whether the browser has Web Audio
InitPrefs(storedSound, storedView, audio) ==
    /\ storage = [k \in {"soundEnabled", "siteView"} |->
                     IF k = "soundEnabled" THEN storedSound ELSE storedView]
    /\ written = {}
    /\ audioSupported = audio
    /\ soundManager = NewSoundManager
    /\ now = hoverThrottle
    /\ sounded = FALSE
    /\ lastRet = Null
    /\ raised = FALSE
    /\ stMounted = [t \in Toggles |-> FALSE]
    /\ stEnabled = [t \in Toggles |-> FALSE]
    /\ view = "terminal"
    /\ vtMounted = FALSE
    /\ classList = InitialClassList

----------------------------------------------------------------------------
(* MolecularViewer.jsx: the 3Dmol viewer *)

\* how many timers of unmounted instances are followed
MaxStale == 2

\* what the library calls inside the try block may do
InitOutcomes == {"ok", "throwsEarly", "throwsLate"}

\* useState(true), useState(false), useRef(null); no timer is pending.
\* viewer is FALSE for viewerRef.current === null.
NewMolecularViewer ==
    [mounted |-> FALSE, isLoading |-> TRUE, loadError |-> FALSE,
     viewer |-> FALSE, retry |-> 0, download |-> FALSE]

\* init3Dmol(), run by the instance `m` while it is mounted.
\* containerRef.current is null when the fallback is rendered instead of the
\* canvas div.
Init3Dmol(m, outcome) ==
    IF ~lib3Dmol THEN [m EXCEPT !.retry = m.retry + 1]
    ELSE IF m.loadError \/ m.viewer THEN m
    ELSE IF outcome = "throwsEarly"
         THEN [m EXCEPT !.loadError = TRUE, !.isLoading = FALSE]
    ELSE IF outcome = "throwsLate"
         THEN [m EXCEPT !.viewer = TRUE, !.loadError = TRUE,
                        !.isLoading = FALSE]
    ELSE [m EXCEPT !.viewer = TRUE, !.download = TRUE]

\* the component mounts and its effect calls init3Dmol()
MvMount(outcome) ==
    /\ ~mv.mounted
    /\ mvStale < MaxStale
    /\ mv' = Init3Dmol([NewMolecularViewer EXCEPT !.mounted = TRUE], outcome)
    /\ lastOp' = <<"mvMount", outcome>>
    /\ UNCHANGED <<mvStale, lib3Dmol>>

\* setTimeout(init3Dmol, 100) of the mounted instance fires
MvRetryFire(outcome) ==
    /\ mv.mounted
    /\ mv.retry > 0
    /\ mv' = Init3Dmol([mv EXCEPT !.retry = mv.retry - 1], outcome)
    /\ lastOp' = <<"mvRetryFire", outcome>>
    /\ UNCHANGED <<mvStale, lib3Dmol>>

\* the callback of $3Dmol.download: styles, render, setIsLoading(false)
MvDownloadDone ==
    /\ mv.mounted
    /\ mv.download
    /\ mv' = [mv EXCEPT !.download = FALSE, !.isLoading = FALSE]
    /\ lastOp' = <<"mvDownloadDone", Null>>
    /\ UNCHANGED <<mvStale, lib3Dmol>>

\* the effect's cleanup: stop the spin and drop the viewer. The retry timer
\* is not cleared and stays pending for the unmounted instance.
MvUnmount ==
    /\ mv.mounted
    /\ mv' = NewMolecularViewer
    /\ mvStale' = mvStale + mv.retry
    /\ lastOp' = <<"mvUnmount", Null>>
    /\ UNCHANGED lib3Dmol

\* a retry timer of an unmounted instance fires: without the library it
\* schedules itself again, with it containerRef.current is null and it returns
MvStaleFire ==
    /\ mvStale > 0
    /\ mvStale' = IF ~lib3Dmol THEN mvStale ELSE mvStale - 1
    /\ lastOp' = <<"mvStaleFire", Null>>
    /\ UNCHANGED <<mv, lib3Dmol>>

\* the 3Dmol script finishes loading and defines window.$3Dmol
Load3Dmol ==
    /\ ~lib3Dmol
    /\ lib3Dmol' = TRUE
    /\ lastOp' = <<"load3Dmol", Null>>
    /\ UNCHANGED <<mv, mvStale>>

MvStep ==
    \/ \E o \in InitOutcomes : MvMount(o)
    \/ \E o \in InitOutcomes : MvRetryFire(o)
    \/ MvDownloadDone
    \/ MvUnmount
    \/ MvStaleFire
    \/ Load3Dmol

----------------------------------------------------------------------------
(* WaddingtonLandscape: the Three.js landscape *)

\* scene is FALSE for sceneRef.current === null
NewWaddingtonLandscape ==
    [mounted |-> FALSE, isLoading |-> TRUE, loadError |-> FALSE,
     scene |-> FALSE, retry |-> 0, raf |-> 0]

\* initThreeJS(), run by the instance `w` while it is mounted
InitThreeJS(w, outcome) ==
    IF ~libTHREE THEN [w EXCEPT !.retry = w.retry + 1]
    ELSE IF w.loadError \/ w.scene THEN w
    ELSE IF outcome = "throwsEarly"
         THEN [w EXCEPT !.loadError = TRUE, !.isLoading = FALSE]
    ELSE IF outcome = "throwsLate"
         THEN [w EXCEPT !.scene = TRUE, !.loadError = TRUE,
                        !.isLoading = FALSE]
    ELSE [w EXCEPT !.scene = TRUE, !.isLoading = FALSE, !.raf = 1]

WlMount(outcome) ==
    /\ ~wl.mounted
    /\ wlStale.retry < MaxStale
    /\ wlStale.raf < MaxStale
    /\ wl' = InitThreeJS([NewWaddingtonLandscape EXCEPT !.mounted = TRUE],
                         outcome)
    /\ lastOp' = <<"wlMount", outcome>>
    /\ UNCHANGED <<wlStale, libTHREE>>

\* setTimeout(initThreeJS, 100) of the mounted instance fires
WlRetryFire(outcome) ==
    /\ wl.mounted
    /\ wl.retry > 0
    /\ wl' = InitThreeJS([wl EXCEPT !.retry = wl.retry - 1], outcome)
    /\ lastOp' = <<"wlRetryFire", outcome>>
    /\ UNCHANGED <<wlStale, libTHREE>>

\* animate(): returns when sceneRef.current is null, else renders and
\* requests the next frame
WlRafFire ==
    /\ wl.mounted
    /\ wl.raf > 0
    /\ wl' = IF wl.scene THEN wl ELSE [wl EXCEPT !.raf = 0]
    /\ lastOp' = <<"wlRafFire", Null>>
    /\ UNCHANGED <<wlStale, libTHREE>>

\* the effect's cleanup: dispose the renderer, sceneRef.current = null.
\* Neither the retry timer nor the requested frame is cancelled.
WlUnmount ==
    /\ wl.mounted
    /\ wl' = NewWaddingtonLandscape
    /\ wlStale' = [retry |-> wlStale.retry + wl.retry,
                   raf |-> wlStale.raf + wl.raf]
    /\ lastOp' = <<"wlUnmount", Null>>
    /\ UNCHANGED libTHREE

WlStaleRetryFire ==
    /\ wlStale.retry > 0
    /\ wlStale' = IF ~libTHREE THEN wlStale
                  ELSE [wlStale EXCEPT !.retry = wlStale.retry - 1]
    /\ lastOp' = <<"wlStaleRetryFire", Null>>
    /\ UNCHANGED <<wl, libTHREE>>

\* animate() of an unmounted instance: sceneRef.current is null, it returns
WlStaleRafFire ==
    /\ wlStale.raf > 0
    /\ wlStale' = [wlStale EXCEPT !.raf = wlStale.raf - 1]
    /\ lastOp' = <<"wlStaleRafFire", Null>>
    /\ UNCHANGED <<wl, libTHREE>>

\* the three.js script finishes loading and defines window.THREE
LoadTHREE ==
    /\ ~libTHREE
    /\ libTHREE' = TRUE
    /\ lastOp' = <<"loadTHREE", Null>>
    /\ UNCHANGED <<wl, wlStale>>

WlStep ==
    \/ \E o \in InitOutcomes : WlMount(o)
    \/ \E o \in InitOutcomes : WlRetryFire(o)
    \/ WlRafFire
    \/ WlUnmount
    \/ WlStaleRetryFire
    \/ WlStaleRafFire
    \/ LoadTHREE

viewerVars == <<lib3Dmol, libTHREE, mv, mvStale, wl, wlStale>>

InitViewers ==
    /\ lib3Dmol = FALSE
    /\ libTHREE = FALSE
    /\ mv = NewMolecularViewer
    /\ mvStale = 0
    /\ wl = NewWaddingtonLandscape
    /\ wlStale = [retry |-> 0, raf |-> 0]

----------------------------------------------------------------------------
(* CausalNetworkVisualization.jsx: the timers of the intervention cascade *)

\* the largest frameIndex prop that is tried, and the largest number of
\* cascade timeouts that are followed at once
MaxFrameIndex == 5
MaxPending == 10

edges ==
    { [from |-> "PRICE", to |-> "DEMAND", feedback |-> FALSE],
      [from |-> "PROMO", to |-> "DEMAND", feedback |-> FALSE],
      [from |-> "CHANNEL", to |-> "DEMAND", feedback |-> FALSE],
      [from |-> "MARKET", to |-> "DEMAND", feedback |-> FALSE],
      [from |-> "OPS", to |-> "CONVERSION", feedback |-> FALSE],
      [from |-> "CHANNEL", to |-> "CONVERSION", feedback |-> FALSE],
      [from |-> "DEMAND", to |-> "CONVERSION", feedback |-> FALSE],
      [from |-> "CONVERSION", to |-> "REVENUE", feedback |-> FALSE],
      [from |-> "REVENUE", to |-> "PROMO", feedback |-> TRUE],
      [from |-> "CONVERSION", to |-> "DEMAND", feedback |-> TRUE] }

interventionCycle == <<"PRICE", "PROMO", "CHANNEL", "OPS">>

\* interventionCycle[Math.floor(frameIndex / 5) % interventionCycle.length]
currentIntervention(frameIndex) ==
    interventionCycle[((frameIndex \div 5) % Len(interventionCycle)) + 1]

ForwardStep(visited) ==
    visited \cup {e.to : e \in {x \in edges : x.from \in visited
                                                /\ ~x.feedback}}

RECURSIVE ForwardClosure(_)
ForwardClosure(visited) ==
    IF ForwardStep(visited) = visited THEN visited
    ELSE ForwardClosure(ForwardStep(visited))

\* the nodes of getDownstreamPath(startNode): the nodes reached from the
\* start over edges that are not feedback edges; all but the start have a
\* delay above 0
getDownstreamPath(startNode) == ForwardClosure({startNode})

\* the timeouts one run of the intervention effect starts without keeping
\* their ids: one per downstream node with a delay, one per feedback edge
CascadeTimeouts(frameIndex) ==
    Cardinality(getDownstreamPath(currentIntervention(frameIndex))
                    \ {currentIntervention(frameIndex)})
    + Cardinality({e \in edges : e.feedback})

NewCausalNetwork ==
    [mounted |-> FALSE, frameIndex |-> 0, breathInterval |-> FALSE,
     clearTimer |-> 0, raf |-> 0, cascade |-> 0]

\* mount with the prop frameIndex: the breathing interval, the intervention
\* effect and the particle loop start
CnMount(frameIndex) ==
    /\ ~cn.mounted
    /\ cnStale + CascadeTimeouts(frameIndex) <= MaxPending
    /\ cn' = [mounted |-> TRUE, frameIndex |-> frameIndex,
              breathInterval |-> TRUE, clearTimer |-> 1, raf |-> 1,
              cascade |-> CascadeTimeouts(frameIndex)]
    /\ lastOp' = <<"cnMount", Null>>
    /\ UNCHANGED cnStale

\* the parent passes another frameIndex: the effect's cleanup clears
\* clearTimer only, then the effect runs again
CnSetFrame(frameIndex) ==
    /\ cn.mounted
    /\ frameIndex # cn.frameIndex
    /\ cnStale + cn.cascade + CascadeTimeouts(frameIndex) <= MaxPending
    /\ cn' = [cn EXCEPT !.frameIndex = frameIndex,
                        !.clearTimer = 1,
                        !.cascade = cn.cascade + CascadeTimeouts(frameIndex)]
    /\ lastOp' = <<"cnSetFrame", Null>>
    /\ UNCHANGED cnStale

\* a cascade or feedback timeout of the mounted instance fires
CnCascadeFire ==
    /\ cn.mounted
    /\ cn.cascade > 0
    /\ cn' = [cn EXCEPT !.cascade = cn.cascade - 1]
    /\ lastOp' = <<"cnCascadeFire", Null>>
    /\ UNCHANGED cnStale

\* clearTimer fires: setIntervention(null)
CnClearTimerFire ==
    /\ cn.mounted
    /\ cn.clearTimer > 0
    /\ cn' = [cn EXCEPT !.clearTimer = 0]
    /\ lastOp' = <<"cnClearTimerFire", Null>>
    /\ UNCHANGED cnStale

\* the breathing interval and the particle loop keep themselves scheduled
CnBreathTick ==
    /\ cn.mounted
    /\ cn.breathInterval
    /\ lastOp' = <<"cnBreathTick", Null>>
    /\ UNCHANGED <<cn, cnStale>>

CnRafFire ==
    /\ cn.mounted
    /\ cn.raf > 0
    /\ lastOp' = <<"cnRafFire", Null>>
    /\ UNCHANGED <<cn, cnStale>>

\* the cleanups: clearInterval(breathInterval), clearTimeout(clearTimer),
\* cancelAnimationFrame(animationRef.current); the cascade timeouts stay
CnUnmount ==
    /\ cn.mounted
    /\ cn' = NewCausalNetwork
    /\ cnStale' = cnStale + cn.cascade
    /\ lastOp' = <<"cnUnmount", Null>>

\* a cascade timeout of an unmounted instance fires
CnStaleFire ==
    /\ cnStale > 0
    /\ cnStale' = cnStale - 1
    /\ lastOp' = <<"cnStaleFire", Null>>
    /\ UNCHANGED cn

CnStep ==
    \/ \E f \in 0..MaxFrameIndex : CnMount(f)
    \/ \E f \in 0..MaxFrameIndex : CnSetFrame(f)
    \/ CnCascadeFire
    \/ CnClearTimerFire
    \/ CnBreathTick
    \/ CnRafFire
    \/ CnUnmount
    \/ CnStaleFire

----------------------------------------------------------------------------
(* AsciiHeroAnimation: the scene cycler *)

\* variant: the second scene has two frames only
scenesUneven == <<4, 2, 4>>

\* lengths of proteinFrames, networkFrames, mlRoiFrames
scenes == <<4, 4, 4>>

\* useState(0), useState(0), useState(false). closureScene is the
\* currentScene the callback of the running frame interval was created
\* with; renders lists the <<currentScene, frameIndex>> of every render the
\* last step caused.
NewAsciiHero ==
    [mounted |-> FALSE, currentScene |-> 0, frameIndex |-> 0,
     isTransitioning |-> FALSE, frameInterval |-> FALSE,
     sceneInterval |-> FALSE, transition |-> 0,
     closureScene |-> 0, renders |-> <<>>]

AhMount ==
    /\ ~ah.mounted
    /\ ahStale < MaxStale
    /\ ah' = [NewAsciiHero EXCEPT !.mounted = TRUE, !.frameInterval = TRUE,
                                  !.sceneInterval = TRUE,
                                  !.renders = << <<0, 0>> >>]
    /\ lastOp' = <<"ahMount", Null>>
    /\ UNCHANGED ahStale

\* setFrameIndex((prev) => (prev + 1) % scenes[currentScene].length), with
\* the currentScene of the callback's closure. The render of the update is
\* preceded by the pending effect of [currentScene], which replaces the
\* interval by one created with the current scene.
AhFrameTick ==
    /\ ah.mounted
    /\ ah.frameInterval
    /\ LET next == (ah.frameIndex + 1) % scenes[ah.closureScene + 1] IN
          ah' = [ah EXCEPT !.frameIndex = next,
                           !.closureScene = ah.currentScene,
                           !.renders = << <<ah.currentScene, next>> >>]
    /\ lastOp' = <<"ahFrameTick", Null>>
    /\ UNCHANGED ahStale

\* the effect of [currentScene] runs after a scene change: clearInterval of
\* the old frame interval, setInterval of a new one
AhEffectRun ==
    /\ ah.mounted
    /\ ah.closureScene # ah.currentScene
    /\ ah' = [ah EXCEPT !.closureScene = ah.currentScene]
    /\ lastOp' = <<"ahEffectRun", Null>>
    /\ UNCHANGED ahStale

\* the scene interval (6000 ms) fires: the 300 ms timeout of the tick before
\* has fired by then
AhSceneTick ==
    /\ ah.mounted
    /\ ah.sceneInterval
    /\ ah.transition = 0
    /\ ah' = [ah EXCEPT !.isTransitioning = TRUE, !.transition = 1,
                        !.renders = << <<ah.currentScene, ah.frameIndex>> >>]
    /\ lastOp' = <<"ahSceneTick", Null>>
    /\ UNCHANGED ahStale

\* the transition timeout fires: setCurrentScene, setFrameIndex(0),
\* setIsTransitioning(false). A React that batches updates made in a timer
\* renders once; one that does not renders after each of the three.
AhTransitionFire(batched) ==
    /\ ah.mounted
    /\ ah.transition > 0
    /\ LET scene == (ah.currentScene + 1) % Len(scenes) IN
          ah' = [ah EXCEPT !.currentScene = scene,
                           !.frameIndex = 0,
                           !.isTransitioning = FALSE,
                           !.transition = 0,
                           !.renders =
                               IF batched THEN << <<scene, 0>> >>
                               ELSE << <<scene, ah.frameIndex>>,
                                       <<scene, 0>>, <<scene, 0>> >>]
    /\ lastOp' = <<"ahTransitionFire", batched>>
    /\ UNCHANGED ahStale

\* the cleanups clear frameInterval and sceneInterval; the transition
\* timeout is not cleared
AhUnmount ==
    /\ ah.mounted
    /\ ah' = NewAsciiHero
    /\ ahStale' = ahStale + ah.transition
    /\ lastOp' = <<"ahUnmount", Null>>

\* the transition timeout of an unmounted instance fires
AhStaleFire ==
    /\ ahStale > 0
    /\ ahStale' = ahStale - 1
    /\ lastOp' = <<"ahStaleFire", Null>>
    /\ UNCHANGED ah

AhStep ==
    \/ AhMount
    \/ AhFrameTick
    \/ AhEffectRun
    \/ AhSceneTick
    \/ \E batched \in BOOLEAN : AhTransitionFire(batched)
    \/ AhUnmount
    \/ AhStaleFire

\* const currentFrame = scenes[currentScene][frameIndex]: whether the
\* element exists in the literal array
FrameDefined(scene, frameIndex) ==
    /\ scene + 1 \in 1..Len(scenes)
    /\ frameIndex \in 0..(scenes[scene + 1] - 1)

----------------------------------------------------------------------------
(* AsciiHeroAnimation.jsx: the three panels driven by one frame index *)

\* the cycle of the frame index: (prev + 1) % 12
heroCycle == 12

\* lengths of enzymeFrames, regulatoryFrames, decisionFrames
panels == <<6, 12, 4>>

NewHeroPanels == [mounted |-> FALSE, frameIndex |-> 0]

HpMount ==
    /\ ~hp.mounted
    /\ hp' = [mounted |-> TRUE, frameIndex |-> 0]
    /\ lastOp' = <<"hpMount", Null>>

\* setFrameIndex((prev) => (prev + 1) % 12)
HpFrameTick ==
    /\ hp.mounted
    /\ hp' = [hp EXCEPT !.frameIndex = (hp.frameIndex + 1) % heroCycle]
    /\ lastOp' = <<"hpFrameTick", Null>>

\* return () => clearInterval(frameInterval)
HpUnmount ==
    /\ hp.mounted
    /\ hp' = NewHeroPanels
    /\ lastOp' = <<"hpUnmount", Null>>

HpStep ==
    \/ HpMount
    \/ HpFrameTick
    \/ HpUnmount

\* AsciiPanel: the index of panel.frames[frameIndex % panel.frames.length]
PanelFrame(p, frameIndex) == frameIndex % panels[p]

animationVars == <<cn, cnStale, ah, ahStale, hp>>

InitAnimations ==
    /\ cn = NewCausalNetwork
    /\ cnStale = 0
    /\ ah = NewAsciiHero
    /\ ahStale = 0
    /\ hp = NewHeroPanels

----------------------------------------------------------------------------
(* Specifications *)

NextFilter == FilterStep /\ UNCHANGED <<prefVars, viewerVars, animationVars>>

NextPrefs == PrefStep /\ UNCHANGED <<filterVars, viewerVars, animationVars>>

\* what a step of one viewer leaves alone
MvFrame ==
    UNCHANGED <<wl, wlStale, libTHREE, filterVars, prefVars, animationVars>>

WlFrame ==
    UNCHANGED <<mv, mvStale, lib3Dmol, filterVars, prefVars, animationVars>>

NextViewers ==
    \/ MvStep /\ MvFrame
    \/ WlStep /\ WlFrame

NextAnimations ==
    /\ \/ CnStep /\ UNCHANGED <<ah, ahStale>>
       \/ AhStep /\ UNCHANGED <<cn, cnStale>>
    /\ UNCHANGED <<hp, filterVars, prefVars, viewerVars>>

NextHero ==
    /\ \/ AhStep /\ UNCHANGED hp
       \/ HpStep /\ UNCHANGED <<ah, ahStale>>
    /\ UNCHANGED <<cn, cnStale, filterVars, prefVars, viewerVars>>

\* the filter view over the shipped records
Init ==
    /\ InitFilter(accomplishments)
    /\ InitPrefs(Null, Null, TRUE)
    /\ InitViewers
    /\ InitAnimations

Next == NextFilter

Spec == Init /\ [][Next]_vars

StoredSoundValues == {Null, "true", "false", "yes"}
StoredViewValues == {Null, "classic", "terminal", "retro"}

\* the preference controls over any storage the browser may hold
InitAnyStorage ==
    /\ InitFilter(accomplishments)
    /\ \E s \in StoredSoundValues, v \in StoredViewValues, a \in BOOLEAN :
          InitPrefs(s, v, a)
    /\ InitViewers
    /\ InitAnimations

SpecPrefs == InitAnyStorage /\ [][NextPrefs]_vars

\* the two library-backed viewers
SpecViewers == Init /\ [][NextViewers]_vars

\* the timer-driven animations
SpecAnimations == Init /\ [][NextAnimations]_vars

\* the two layouts of the hero animation
SpecHero == Init /\ [][NextHero]_vars

\* timers that are pending fire, and a started download completes
ViewerFairness ==
    /\ WF_vars((\E o \in InitOutcomes : MvRetryFire(o)) /\ MvFrame)
    /\ WF_vars((\E o \in InitOutcomes : WlRetryFire(o)) /\ WlFrame)
    /\ WF_vars(MvDownloadDone /\ MvFrame)
    /\ WF_vars(WlRafFire /\ WlFrame)
    /\ WF_vars(MvStaleFire /\ MvFrame)
    /\ WF_vars(WlStaleRetryFire /\ WlFrame)
    /\ WF_vars(WlStaleRafFire /\ WlFrame)

SpecViewersFair == Init /\ [][NextViewers]_vars /\ ViewerFairness

----------------------------------------------------------------------------
(* The filter view over an authored record list: the shipped records plus  *)
(* one record whose tags are drawn from tags inside and outside the lookup *)
(* tables (README.md: records are edited in the accomplishments array).    *)

MaxTags == 2

AuthorMethodTags == {"llms", "mlops", "quantum"}
AuthorIndustryTags == {"revenue", "space"}

TagLists(tags) == UNION {[1..k -> tags] : k \in 1..MaxTags}

AuthoredRecords ==
    {[id |-> 7, methods |-> m, industries |-> i] :
        m \in TagLists(AuthorMethodTags), i \in TagLists(AuthorIndustryTags)}

InitAuthored ==
    /\ \E extra \in AuthoredRecords :
          InitFilter(Append(accomplishments, extra))
    /\ InitPrefs(Null, Null, TRUE)
    /\ InitViewers
    /\ InitAnimations

SpecAuthored == InitAuthored /\ [][NextFilter]_vars

----------------------------------------------------------------------------
(* Properties of the filter view *)

RecordOf(id) == CHOOSE r \in {records[i] : i \in 1..Len(records)} : r.id = id

MatchingIndexes(cat) ==
    {i \in 1..Len(records) : Includes(TagList(records[i], viewMode), cat)}

\* C1: for each view mode and each category tag of the mode, the group of
\* the tag holds exactly the records whose tag list in that dimension
\* includes the tag (none missing, none extra, none twice), and with a
\* category selected the displayed groups are that category's group only.
C1_GroupsExact ==
    /\ DOMAIN grouped = DOMAIN categories
    /\ \A cat \in DOMAIN grouped :
          /\ \A i \in 1..Len(records) :
                (i \in MatchingIndexes(cat))
                    <=> (\E j \in 1..Len(grouped[cat]) :
                            grouped[cat][j] = records[i])
          /\ \A j \in 1..Len(grouped[cat]) :
                \E i \in 1..Len(records) : grouped[cat][j] = records[i]
          /\ Len(grouped[cat]) = Cardinality(MatchingIndexes(cat))
    /\ selectedCategory # Null =>
          /\ DOMAIN displayGroups = {selectedCategory}
          /\ displayGroups[selectedCategory] = grouped[selectedCategory]

\* the industry view with a category selected whose group is a proper,
\* non-empty part of the records
C1_Witness ==
    /\ viewMode = "industry"
    /\ selectedCategory = "operations"
    /\ Len(grouped["operations"]) = 3
    /\ DisplayedIds = {2, 3, 6}

\* C3 as stated: a click on a card toggles that record's panel and leaves
\* the visibility of every other record's panel unchanged.
C3_Original ==
    [][\A id \in RecordIds :
          ClickCard(id) =>
              /\ PanelVisible(id)' = ~PanelVisible(id)
              /\ \A o \in RecordIds \ {id} :
                     PanelVisible(o)' = PanelVisible(o)]_vars

\* C3 amended: a click on a card toggles that record's panel; every other
\* record's panel is hidden afterwards (a panel that was hidden stays
\* hidden, the panel of another record that was expanded is collapsed).
C3_ClickTogglesPanel ==
    [][\A id \in RecordIds :
          ClickCard(id) =>
              /\ PanelVisible(id)' = ~PanelVisible(id)
              /\ \A o \in RecordIds \ {id} : ~PanelVisible(o)']_vars

\* a card was clicked while expanded and its panel is now hidden
C3_Witness ==
    /\ lastOp = <<"clickCard", 2>>
    /\ expandedId = {}
    /\ 2 \in DisplayedIds

ShownLabels(table, list) == [i \in 1..Len(list) |-> TagLabel(table, list[i])]

ExpectedLabel(table, tag) == IF tag \in DOMAIN table THEN table[tag] ELSE tag

LabelsRight ==
    \A id \in RecordIds :
        PanelVisible(id) =>
            LET r == RecordOf(id) IN
            /\ \A i \in 1..Len(r.methods) :
                  ShownLabels(methodCategories, r.methods)[i]
                      = ExpectedLabel(methodCategories, r.methods[i])
            /\ \A i \in 1..Len(r.industries) :
                  ShownLabels(industryCategories, r.industries)[i]
                      = ExpectedLabel(industryCategories, r.industries[i])

HasMissingTag(r) ==
    \/ \E i \in 1..Len(r.methods) : r.methods[i] \notin DOMAIN methodCategories
    \/ \E i \in 1..Len(r.industries) :
          r.industries[i] \notin DOMAIN industryCategories

HasKnownTag(r, mode) ==
    \E i \in 1..Len(TagList(r, mode)) :
        TagList(r, mode)[i] \in DOMAIN categoriesOf(mode)

\* C8 as stated: the label of a tag is the table's label when the tag is a
\* key and the raw tag otherwise; a missing tag causes no error and never
\* keeps the record from being displayed (with no category selected every
\* record has a card).
C8_Original ==
    /\ LabelsRight
    /\ ~renderThrows
    /\ selectedCategory = Null => \A id \in RecordIds : id \in DisplayedIds

\* C8 amended: the label of a tag is the table's label when the tag is a
\* key and the raw tag otherwise; a missing tag causes no error; with no
\* category selected a record has a card exactly when at least one tag of
\* its list in the dimension of the view mode is a key of that mode's table.
C8_LabelFallback ==
    /\ LabelsRight
    /\ ~renderThrows
    /\ selectedCategory = Null =>
          \A id \in RecordIds :
              id \in DisplayedIds <=> HasKnownTag(RecordOf(id), viewMode)

\* the expanded panel of a record with a tag outside the tables is shown
C8_Witness ==
    /\ PanelVisible(7)
    /\ HasMissingTag(RecordOf(7))
    /\ \E i \in 1..Len(RecordOf(7).methods) :
          /\ RecordOf(7).methods[i] \notin DOMAIN methodCategories
          /\ ShownLabels(methodCategories, RecordOf(7).methods)[i]
                = RecordOf(7).methods[i]

\* C10: no two records of the accomplishments array have the same id, so
\* the expanded id identifies exactly one record.
C10_UniqueIds ==
    /\ \A i, j \in 1..Len(records) :
          records[i].id = records[j].id => i = j
    /\ \A x \in expandedId :
          Cardinality({i \in 1..Len(records) : records[i].id = x}) = 1

\* a record is expanded
C10_Witness ==
    /\ expandedId = {6}
    /\ PanelVisible(6)

\* C11: every entry of a record's methods list is a key of
\* methodCategories, every entry of its industries list is a key of
\* industryCategories, and the keys of the two tables are exactly the
\* documented available tags.
C11_TagsExist ==
    /\ \A i \in 1..Len(records) :
          /\ \A j \in 1..Len(records[i].methods) :
                records[i].methods[j] \in DOMAIN methodCategories
          /\ \A j \in 1..Len(records[i].industries) :
                records[i].industries[j] \in DOMAIN industryCategories
    /\ DOMAIN methodCategories = AvailableMethodTags
    /\ DOMAIN industryCategories = AvailableIndustryTags

\* the panel of a record is open and each of its tags has a table label
C11_Witness ==
    /\ PanelVisible(3)
    /\ viewMode = "industry"
    /\ ShownLabels(methodCategories, RecordOf(3).methods)
          = <<"LLMs & GenAI", "MLOps">>
    /\ ShownLabels(industryCategories, RecordOf(3).industries)
          = <<"Streamline Ops", "Customer Experience">>

\* C14: the selected category is null or a key of the category table of
\* the current view mode, and a click on a view-mode button clears it; the
\* group looked up for the selected category is defined and every group
\* that is displayed has an entry in the category table.
C14_SelectionInTable ==
    /\ [](/\ selectedCategory = Null \/ selectedCategory \in DOMAIN categories
          /\ selectedCategory # Null => selectedCategory \in DOMAIN grouped
          /\ ~renderThrows
          /\ DOMAIN displayGroups \subseteq DOMAIN categories)
    /\ [][\A mode \in ViewModes :
             SetViewMode(mode) => selectedCategory' = Null]_vars

\* a category that only the industry table has is selected in the industry
\* view and its group is displayed
C14_Witness ==
    /\ viewMode = "industry"
    /\ selectedCategory = "legal"
    /\ "legal" \notin DOMAIN methodCategories
    /\ DOMAIN displayGroups = {"legal"}
    /\ DisplayedIds = {6}

NonEmptyGroups == {cat \in DOMAIN grouped : Len(grouped[cat]) # 0}

\* C15: a click on a pill selects its category when it was not the selected
\* one and clears the selection when it was; at most one category is
\* selected; 'Show all' is available exactly when a category is selected,
\* and a click on it leaves no selection and all non-empty groups displayed.
C15_PillSelection ==
    /\ [][\A key \in AllKeys :
             ClickPill(key) =>
                 selectedCategory' =
                     IF selectedCategory = key THEN Null ELSE key]_vars
    /\ [](Cardinality(ActivePills) <= 1)
    /\ [](ShowAllRendered <=> selectedCategory # Null)
    /\ [][ShowAll =>
             /\ selectedCategory # Null
             /\ selectedCategory' = Null
             /\ ActivePills' = {}
             /\ RenderedSections' = NonEmptyGroups']_vars

\* 'Show all' was clicked in the industry view: nothing is selected and the
\* nine non-empty groups are displayed
C15_Witness ==
    /\ lastOp = <<"showAll", Null>>
    /\ viewMode = "industry"
    /\ selectedCategory = Null
    /\ ~ShowAllRendered
    /\ Cardinality(RenderedSections) = 9
    /\ DisplayedIds = RecordIds

SelectionOp ==
    \/ \E mode \in ViewModes : SetViewMode(mode)
    \/ \E key \in AllKeys : ClickPill(key)
    \/ ShowAll

\* C16: a click on a view-mode button, on a pill or on 'Show all' leaves
\* the expanded record id unchanged, also when the record is no longer in a
\* displayed group afterwards.
C16_ExpandedIdKept ==
    [][SelectionOp => expandedId' = expandedId]_vars

\* a record is expanded and the pill clicked last has removed it from the
\* displayed groups
C16_Witness ==
    /\ lastOp[1] = "clickPill"
    /\ selectedCategory # Null
    /\ expandedId = {1}
    /\ 1 \notin DisplayedIds
    /\ ~PanelVisible(1)

\* the records whose cards carry the class 'expanded'
ExpandedRecords == {id \in RecordIds : PanelVisible(id)}

\* C17: at most one record is expanded at any moment; a click on a collapsed
\* record makes it the single expanded record, and a click on the expanded
\* record leaves no record expanded.
C17_AtMostOneExpanded ==
    /\ [](Cardinality(expandedId) <= 1 /\ Cardinality(ExpandedRecords) <= 1)
    /\ [][\A id \in RecordIds :
             ClickCard(id) =>
                 /\ expandedId # {id} =>
                        expandedId' = {id} /\ ExpandedRecords' = {id}
                 /\ expandedId = {id} =>
                        expandedId' = {} /\ ExpandedRecords' = {}]_vars

\* a collapsed record was clicked and is the only expanded record
C17_Witness ==
    /\ lastOp = <<"clickCard", 4>>
    /\ expandedId = {4}
    /\ ExpandedRecords = {4}
    /\ Cardinality(DisplayedIds) > 1

----------------------------------------------------------------------------
(* Properties of the preference controls *)

ToggleCall == CallToggle \/ \E t \in Toggles : StClick(t)

\* the opposite of a stored preference; an absent value counts as "false"
Opposite(stored) == IF stored = "true" THEN "false" ELSE "true"

\* C2: every toggle inverts the enabled flag, returns the new value and
\* writes it under 'soundEnabled', and the stored value after a toggle is
\* the opposite of the stored value before it.
C2_ToggleFlipsStored ==
    [][ToggleCall =>
          /\ soundManager'.enabled = ~soundManager.enabled
          /\ lastRet' = BoolToString(soundManager'.enabled)
          /\ storage'["soundEnabled"] = BoolToString(soundManager'.enabled)
          /\ storage'["soundEnabled"] = Opposite(storage["soundEnabled"])]_vars

\* C4: after handleViewChange(v) the view is v and 'siteView' holds v, and
\* a ViewToggle mounted after such a change (its mount effect done) has the
\* stored view.
C4_ViewPersists ==
    /\ lastOp[1] = "handleViewChange" =>
          /\ lastOp[2] \in Views
          /\ view = lastOp[2]
          /\ storage["siteView"] = lastOp[2]
    /\ (vtMounted /\ \E v \in Views : <<"siteView", v>> \in written) =>
          view = storage["siteView"]

\* the classic view was chosen, the page reloaded and the control mounted
C4_Witness ==
    /\ lastOp[1] = "vtMount"
    /\ <<"siteView", "classic">> \in written
    /\ storage["siteView"] = "classic"
    /\ view = "classic"

\* C5: every value written to local storage is in the documented domain:
\* 'soundEnabled' is "true" or "false", 'siteView' is "classic" or
\* "terminal", and no other key is written.
C5_WrittenValues ==
    written \subseteq
        ({"soundEnabled"} \X {"true", "false"})
            \cup ({"siteView"} \X {"classic", "terminal"})

\* both values of both keys have been written
C5_Witness ==
    /\ Cardinality(written) = 4
    /\ storage["soundEnabled"] = "false"
    /\ storage["siteView"] = "terminal"

PlayCall == PlayHover \/ \E name \in PlayNames : Play(name)

\* C7: without Web Audio no call raises, audioContext stays null and
\* initialized stays false, no sound is ever produced, a play call changes
\* nothing, and toggle() still flips, persists and returns the preference.
C7_UnsupportedAudio ==
    /\ [](~audioSupported =>
            /\ ~raised
            /\ ~soundManager.audioContext
            /\ ~soundManager.initialized
            /\ ~sounded)
    /\ [][(~audioSupported /\ PlayCall) =>
            (soundManager' = soundManager /\ storage' = storage)]_vars
    /\ [][(~audioSupported /\ ToggleCall) =>
            /\ soundManager'.enabled = ~soundManager.enabled
            /\ storage'["soundEnabled"] = BoolToString(soundManager'.enabled)
            /\ lastRet' = BoolToString(soundManager'.enabled)]_vars

\* sound was switched on through a control in a browser without Web Audio
C7_Witness ==
    /\ ~audioSupported
    /\ lastOp[1] = "stClick"
    /\ stMounted[lastOp[2]]
    /\ soundManager.enabled
    /\ storage["soundEnabled"] = "true"
    /\ lastRet = "true"

\* C13: with no stored preference the manager is disabled; while enabled
\* is false none of playClick, playHover, playToggle, playSelect, playExpand
\* and playCollapse produces a sound; every operation that produces a sound
\* is one of these calls made while enabled is true, or a toggle() that has
\* just switched sound on.
C13_SoundOptIn ==
    /\ [](storage["soundEnabled"] = Null => ~soundManager.enabled)
    /\ [][(PlayCall /\ ~soundManager.enabled) => ~sounded']_vars
    /\ [][(sounded' /\ ~Tick) =>
              \/ PlayCall /\ soundManager.enabled
              \/ /\ ToggleCall
                 /\ ~soundManager.enabled
                 /\ soundManager'.enabled]_vars

\* sound was switched on and off again, the audio context exists, and a
\* click sound was asked for and not played
C13_Witness ==
    /\ lastOp[1] = "playClick"
    /\ soundManager.audioContext
    /\ ~soundManager.enabled
    /\ ~sounded
    /\ <<"soundEnabled", "true">> \in written
    /\ storage["soundEnabled"] = "false"

\* C18: within one page load lastHoverTime is the time of the last hover
\* sound that was played; a hover sound is played only when at least
\* hoverThrottle (100 ms) have passed since then, and a playHover call that
\* arrives earlier plays nothing and leaves lastHoverTime as it was.
C18_HoverThrottle ==
    /\ [][soundManager'.lastHoverTime # soundManager.lastHoverTime =>
              \/ Reload
              \/ PlayHover /\ sounded' /\ soundManager'.lastHoverTime = now]_vars
    /\ [][(PlayHover /\ sounded') =>
              /\ soundManager.enabled
              /\ now - soundManager.lastHoverTime >= hoverThrottle
              /\ soundManager'.lastHoverTime = now]_vars
    /\ [][(PlayHover /\ now - soundManager.lastHoverTime < hoverThrottle) =>
              /\ ~sounded'
              /\ soundManager'.lastHoverTime = soundManager.lastHoverTime]_vars

\* with sound enabled a hover sound was played and a second playHover call,
\* one clock step later, was dropped
C18_Witness ==
    /\ lastOp[1] = "playHover"
    /\ PlayGuardPasses(soundManager)
    /\ ~sounded
    /\ soundManager.lastHoverTime >= hoverThrottle
    /\ now - soundManager.lastHoverTime = TickStep
    /\ TickStep < hoverThrottle

\* init() has been called on this page: directly by the last operation, or
\* by the mount effect of a SoundToggle
InitCalled == lastOp[1] = "init()" \/ \E t \in Toggles : stMounted[t]

\* C19: once init() has been called, and after any init and toggle calls
\* that follow, isEnabled() is true exactly when the stored 'soundEnabled'
\* value is "true".
C19_EnabledAgreesWithStorage ==
    InitCalled =>
        (IsEnabled(soundManager) <=> storage["soundEnabled"] = "true")

\* C20: the enabled state displayed by every mounted SoundToggle equals
\* soundManager.isEnabled().
C20_TogglesShowState ==
    \A t \in Toggles :
        stMounted[t] => (stEnabled[t] <=> IsEnabled(soundManager))

\* C21: on a page whose root element starts with the class 'dark' and
\* without 'classic', after the mount effect and any view changes the root
\* element has exactly one of 'dark' and 'classic', it has 'classic' exactly
\* when the view is 'classic', and exactly one button is marked active.
C21_OneThemeClass ==
    vtMounted =>
        /\ Cardinality(classList \cap {"dark", "classic"}) = 1
        /\ "classic" \in classList <=> view = "classic"
        /\ "dark" \in classList <=> view = "terminal"
        /\ Cardinality(ActiveButtons) = 1

\* the view was changed to terminal and then back to classic
C21_Witness ==
    /\ vtMounted
    /\ lastOp = <<"handleViewChange", "classic">>
    /\ <<"siteView", "terminal">> \in written
    /\ view = "classic"
    /\ classList = {"classic"}
    /\ ActiveButtons = {"classic"}

----------------------------------------------------------------------------
(* Properties of the widgets *)

\* C6: if the library of a viewer never becomes available, the mounted
\* viewer eventually leaves its loading state and shows the SVG fallback.
C6_FallbackWhenLibraryMissing ==
    /\ (<>[](mv.mounted /\ ~lib3Dmol)) => <>(mv.loadError /\ ~mv.isLoading)
    /\ (<>[](wl.mounted /\ ~libTHREE)) => <>(wl.loadError /\ ~wl.isLoading)

\* C12: on every tick of the frame interval the hero's frame index advances
\* by exactly one modulo its cycle length and stays inside [0, cycle length),
\* and every frame that is rendered, in every interleaving of the frame
\* interval with the scene-transition timer, is an element of its literal
\* frame array.
C12_FrameIndexInRange ==
    /\ [](ah.mounted =>
            /\ ah.frameIndex \in 0..(scenes[ah.currentScene + 1] - 1)
            /\ \A i \in 1..Len(ah.renders) :
                   FrameDefined(ah.renders[i][1], ah.renders[i][2]))
    /\ [](hp.mounted =>
            /\ hp.frameIndex \in 0..(heroCycle - 1)
            /\ \A p \in 1..Len(panels) :
                   PanelFrame(p, hp.frameIndex) \in 0..(panels[p] - 1))
    /\ [][AhFrameTick =>
            ah'.frameIndex
                = (ah.frameIndex + 1) % scenes[ah.currentScene + 1]]_vars
    /\ [][HpFrameTick =>
            hp'.frameIndex = (hp.frameIndex + 1) % heroCycle]_vars

\* the transition timer fired while the last frame of a scene was shown and
\* rendered before the index was reset; the panel layout is at its last frame
C12_Witness ==
    /\ lastOp = <<"ahTransitionFire", FALSE>>
    /\ Len(ah.renders) = 3
    /\ ah.renders[1] = <<1, 3>>
    /\ ah.frameIndex = 0
    /\ hp.mounted
    /\ hp.frameIndex = heroCycle - 1

\* C9: once a widget is unmounted, none of the timeouts, intervals or
\* animation frames it scheduled is still pending.
C9_NoTimerAfterUnmount ==
    /\ mvStale = 0
    /\ wlStale.retry = 0 /\ wlStale.raf = 0
    /\ cnStale = 0
    /\ ahStale = 0

====
